---- MODULE Spec2Model ----
(***************************************************************************)
(* Multi-verifier identification: the PP2 fan-out (pp2_client.py), the     *)
(* fusion rules tau / delta with candidate extraction and the tri-state    *)
(* decision (fuse.py), and the request handler that chains them (app.py).  *)
(*                                                                         *)
(* Numbers.  A confidence, a threshold and a margin are floats in the      *)
(* source.  Here they are integers counting ticks of 10^-DECIMALS (TLC's   *)
(* integers are 32 bits wide, which rules out a finer tick for the squares *)
(* of the delta rule).  A mean or a weighted mean is an exact fraction of  *)
(* ticks [num, den], den > 0, compared by cross-multiplication, and        *)
(* round(x, 4) rounds such a fraction to a whole number of ticks.          *)
(*                                                                         *)
(* Optional values (a dict key that may be absent, a value that may be     *)
(* None next to a record) are sequences of length 0 or 1.                  *)
(***************************************************************************)
EXTENDS Integers, Sequences, FiniteSets, TLC

VARIABLES
    \* ---- one call of a fusion rule (fuse.py) ----
    pp2_results,      \* the outcome list handed to the fusion rule
    threshold,        \* THRESHOLD, in ticks
    margin,           \* MARGIN, in ticks
    fusion_method,    \* FUSION_METHOD: "tau" | "delta"
    fusion_result,    \* <<>> or <<the dict the rule returned>>
    prior_result,     \* <<>> or <<the rule's result before a failed outcome was inserted>>
    candidates_out,   \* <<>> or <<the list _extract_candidates returned>>
    decision_call,    \* <<>> or <<arguments and return value of _determine_decision>>
    call_log,         \* the calls of a fusion rule so far: argument, argument after, result
    resolution,       \* how many units of confidence make 0.0001: 1, or 10 with a fifth decimal
    \* ---- one request (api/app.py, pp2_client.py, registry_loader.py) ----
    entry,            \* who runs: "identify_and_answer" | "verify_all_services" | "healthz"
    health_body,      \* <<>> or <<the body GET /healthz answered with>>
    filename_ok,      \* whether the uploaded file name ends in .jpg, .jpeg or .png
    image_size_ok,    \* whether the uploaded image is at most 5 MB
    query,            \* whether the request carries a question
    pp1_calls,        \* how often ask_pp1 has been called in the request
    registry,         \* conf/registry.yaml: whether it exists, and its services
    roster,           \* the roster handed to verify_all_services
    pc,               \* position of the handler / of verify_all_services
    tasks,            \* one verify_person call per enabled roster entry
    completion_order, \* task numbers in the order the calls settled
    status_code,      \* HTTP status of the response, 0 while there is none
    motor_client,     \* db.mongo.motor_client / motor_db: 0 is None, n the n-th client made
    service_logs      \* number of documents in the collection service_logs

fuse_vars == <<pp2_results, threshold, margin, fusion_method, fusion_result,
               prior_result, candidates_out, decision_call, call_log>>

request_vars == <<entry, health_body, filename_ok, image_size_ok, query, pp1_calls, registry, roster, pc, tasks, completion_order, status_code, motor_client, service_logs, resolution>>

log_vars == <<motor_client, service_logs>>

vars == <<fuse_vars, request_vars>>

---------------------------------------------------------------------------
(* Bounds and program constants *)

\* round(x, 4): fuse.py keeps four decimals
DECIMALS == 4
\* ticks per 1.0
Unit == 10 ^ DECIMALS

\* THRESHOLD and MARGIN defaults of api/app.py, in ticks
DEFAULT_THRESHOLD == 7500
DEFAULT_MARGIN == 1000

\* longest outcome list handed to a fusion rule
MaxServices == 3
\* longest registry / roster of a request
MaxRoster == 2
\* at most this many calls of a fusion rule in one behaviour
MaxCalls == 3

None == "None"

\* registry of a run that reads none
NoRegistry == [exists |-> FALSE, services |-> <<>>]

\* `x or y` of Python on an optional string
Truthy(x) == x # None /\ x # ""
Or(x, y) == IF Truthy(x) THEN x ELSE y

---------------------------------------------------------------------------
(* Sequences and fractions *)

RECURSIVE Sum(_)
Sum(s) == IF s = <<>> THEN 0 ELSE Head(s) + Sum(Tail(s))

RECURSIVE SumSquares(_)
SumSquares(s) == IF s = <<>> THEN 0 ELSE Head(s) * Head(s) + SumSquares(Tail(s))

Min(s) == CHOOSE x \in {s[i] : i \in 1..Len(s)} : \A j \in 1..Len(s) : x <= s[j]
Max(s) == CHOOSE x \in {s[i] : i \in 1..Len(s)} : \A j \in 1..Len(s) : x >= s[j]

Map(s, F(_)) == [i \in 1..Len(s) |-> F(s[i])]

InsertAt(s, pos, x) == SubSeq(s, 1, pos - 1) \o <<x>> \o SubSeq(s, pos, Len(s))

Frac(n, d) == IF d < 0 THEN [num |-> -n, den |-> -d] ELSE [num |-> n, den |-> d]

\* q >= t and q < t for a fraction q and a tick count t
FracGe(q, t) == q.num >= t * q.den
FracLt(q, t) == q.num < t * q.den

\* round(x, 4) of a fraction of units: the nearest multiple of 0.0001, ties
\* to even (on an exact decimal tie the source's float may land on either
\* side of it; for the inputs drawn the tie only arises for four-outcome
\* delta sums and never moves a decision)
Round4(q) ==
    LET d == q.den * resolution
        f == q.num \div d
        r == q.num - f * d
    IN  resolution * (IF 2 * r < d THEN f
                      ELSE IF 2 * r > d THEN f + 1
                      ELSE IF f % 2 = 0 THEN f ELSE f + 1)

\* statistics.mean
Mean(s) == Frac(Sum(s), Len(s))

---------------------------------------------------------------------------
(* fuse.py *)

\* One pass of the loop of _extract_candidates over `rs`, `dict` being
\* candidates_dict as a list of entries in insertion order.
RECURSIVE GroupInto(_, _)
GroupInto(dict, rs) ==
    IF rs = <<>> THEN dict
    ELSE LET result == Head(rs) IN
         IF ~result.success \/ ~result.verified
         THEN GroupInto(dict, Tail(rs))
         ELSE LET key == Or(result.person_id, result.service_name)
                  known == {i \in 1..Len(dict) : dict[i].key = key}
                  fresh == [key |-> key,
                            person_id |-> result.person_id,
                            name |-> Or(result.name, result.service_name),
                            scores |-> <<>>,
                            services |-> <<>>]
                  d1 == IF known = {} THEN Append(dict, fresh) ELSE dict
                  at == CHOOSE i \in 1..Len(d1) : d1[i].key = key
                  d2 == [d1 EXCEPT ![at].scores = Append(@, result.confidence),
                                   ![at].services = Append(@, result.service_name)]
              IN  GroupInto(d2, Tail(rs))

\* mutant: a sort that puts a candidate ahead of the earlier ones of equal score
RECURSIVE SortByScoreDesc_unstable(_)
SortByScoreDesc_unstable(cs) ==
    IF cs = <<>> THEN <<>>
    ELSE LET sorted == SortByScoreDesc_unstable(SubSeq(cs, 1, Len(cs) - 1))
             c == cs[Len(cs)]
             p == Cardinality({i \in 1..Len(sorted) : sorted[i].score > c.score})
         IN  InsertAt(sorted, p + 1, c)

\* mutant: candidates ordered by the number of agreeing services
RECURSIVE SortByScoreDesc_by_service_count(_)
SortByScoreDesc_by_service_count(cs) ==
    IF cs = <<>> THEN <<>>
    ELSE LET sorted == SortByScoreDesc_by_service_count(SubSeq(cs, 1, Len(cs) - 1))
             c == cs[Len(cs)]
             p == Cardinality({i \in 1..Len(sorted) :
                                  sorted[i].service_count >= c.service_count})
         IN  InsertAt(sorted, p + 1, c)

\* candidates.sort(key=score, reverse=True): stable, equal scores keep their order
RECURSIVE SortByScoreDesc(_)
SortByScoreDesc(cs) ==
    IF cs = <<>> THEN <<>>
    ELSE LET sorted == SortByScoreDesc(SubSeq(cs, 1, Len(cs) - 1))
             c == cs[Len(cs)]
             p == Cardinality({i \in 1..Len(sorted) : sorted[i].score >= c.score})
         IN  InsertAt(sorted, p + 1, c)

\* mutant: the mean score is truncated instead of rounded
CandidateOf_truncated(data) ==
    [person_id |-> data.person_id,
     name |-> data.name,
     score |-> IF data.scores # <<>> THEN Sum(data.scores) \div Len(data.scores) ELSE 0,
     service_count |-> Len(data.services),
     services |-> data.services]

CandidateOf(data) ==
    [person_id |-> data.person_id,
     name |-> data.name,
     score |-> IF data.scores # <<>> THEN Round4(Mean(data.scores)) ELSE 0,
     service_count |-> Len(data.services),
     services |-> data.services]

_extract_candidates(results) ==
    SortByScoreDesc(Map(GroupInto(<<>>, results), CandidateOf))

\* mutant: the threshold itself is not enough to be identified
_determine_decision_strict(confidence, thr, mar, candidates, successful_services, total_services) ==
    IF candidates = <<>> \/ successful_services = 0 THEN "unknown"
    ELSE IF confidence.num > thr * confidence.den THEN "identified"
    ELSE IF FracGe(confidence, thr - mar) THEN "ambiguous"
    ELSE "unknown"

_determine_decision(confidence, thr, mar, candidates, successful_services, total_services) ==
    IF candidates = <<>> \/ successful_services = 0 THEN "unknown"
    ELSE LET adjusted_threshold == thr - mar IN
         IF FracGe(confidence, thr) THEN "identified"
         ELSE IF FracGe(confidence, adjusted_threshold) THEN "ambiguous"
         ELSE "unknown"

IsSuccess(r) == r.success
IsVerified(r) == r.verified
Confidence(r) == r.confidence

\* mutant: failed outcomes are fused like the others
successful_results_unfiltered(results) == results

successful_results(results) == SelectSeq(results, IsSuccess)
verified_results(results) == SelectSeq(successful_results(results), IsVerified)

\* identity: the best candidate when identified
\* mutant: the identity is taken from the lowest-ranked candidate
IdentityOf_lowest_ranked(decision, candidates) ==
    IF decision = "identified" /\ candidates # <<>>
    THEN <<[name |-> candidates[Len(candidates)].name,
            person_id |-> candidates[Len(candidates)].person_id,
            score |-> candidates[Len(candidates)].score]>>
    ELSE <<>>

IdentityOf(decision, candidates) ==
    IF decision = "identified" /\ candidates # <<>>
    THEN <<[name |-> candidates[1].name,
            person_id |-> candidates[1].person_id,
            score |-> candidates[1].score]>>
    ELSE <<>>

\* mutant: the total is lost when no outcome succeeded
EmptyResult_no_total(method, total, withError) ==
    [decision |-> "unknown",
     confidence |-> 0,
     method |-> method,
     identity |-> <<>>,
     candidates |-> <<>>,
     total_services |-> 0,
     successful_services |-> 0,
     min_confidence |-> <<>>,
     max_confidence |-> <<>>,
     verified |-> <<>>,
     adjusted_threshold |-> <<>>,
     error |-> IF withError THEN <<"No hay resultados para fusionar">> ELSE <<>>]

\* the dict returned when there is nothing to fuse
EmptyResult(method, total, withError) ==
    [decision |-> "unknown",
     confidence |-> 0,
     method |-> method,
     identity |-> <<>>,
     candidates |-> <<>>,
     total_services |-> total,
     successful_services |-> 0,
     min_confidence |-> <<>>,
     max_confidence |-> <<>>,
     verified |-> <<>>,
     adjusted_threshold |-> <<>>,
     error |-> IF withError THEN <<"No hay resultados para fusionar">> ELSE <<>>]

\* mutant: only the verified outcomes are averaged
tau_confidence_verified_only(results) ==
    LET v == SelectSeq(results, LAMBDA r : r.success /\ r.verified)
    IN  IF v = <<>> THEN Frac(0, 1) ELSE Mean(Map(v, Confidence))

\* avg_confidence of apply_tau_rule
tau_confidence(results) == Mean(Map(successful_results(results), Confidence))

\* mutant: the flag is the majority vote alone
tau_verified_majority_only(results, thr) ==
    2 * Len(verified_results(results)) > Len(successful_results(results))

\* the legacy verified flag of apply_tau_rule
tau_verified(results, thr) ==
    LET ok == successful_results(results)
        avg_confidence == tau_confidence(results)
    IN  IF Len(ok) = 1 THEN FracGe(avg_confidence, thr)
        ELSE \/ 2 * Len(verified_results(results)) > Len(ok)
             \/ FracGe(avg_confidence, thr)

apply_tau_rule(results, thr, mar) ==
    IF results = <<>> THEN EmptyResult("tau", 0, TRUE)
    ELSE IF successful_results(results) = <<>>
    THEN EmptyResult("tau", Len(results), FALSE)
    ELSE LET ok == successful_results(results)
             confidences == Map(ok, Confidence)
             avg_confidence == tau_confidence(results)
             candidates == _extract_candidates(verified_results(results))
             decision == _determine_decision(avg_confidence, thr, mar, candidates,
                                             Len(ok), Len(results))
         IN  [decision |-> decision,
              confidence |-> Round4(avg_confidence),
              method |-> "tau",
              identity |-> IdentityOf(decision, candidates),
              candidates |-> candidates,
              total_services |-> Len(results),
              successful_services |-> Len(ok),
              min_confidence |-> <<Min(confidences)>>,
              max_confidence |-> <<Max(confidences)>>,
              verified |-> <<tau_verified(results, thr)>>,
              adjusted_threshold |-> <<>>,
              error |-> <<>>]

\* mutant: every outcome weighs the same
delta_confidence_unweighted(results) ==
    LET all_confidences == Map(successful_results(results), Confidence)
    IN  IF Sum(all_confidences) = 0 THEN Frac(0, 1)
        ELSE Frac(Sum(all_confidences), Len(all_confidences))

\* confidences c among the inputs for which the binary64 quotient
\* (c*c + ... + c*c) / (c + ... + c) is the double just below c:
\* 0.73 * 0.73 / 0.73 is 0.7299999999999999
RoundedBelow == {7300}

\* sum(c * w ...) / sum(weights) in binary64: for the confidences drawn as
\* inputs the computed quotient compares with a threshold as the exact one
\* does, except that the quotient of equal confidences in RoundedBelow falls
\* short of the exact one by less than any difference between inputs
float_div(num, den, terms) ==
    IF \A i \in 1..Len(terms) : terms[i] \in RoundedBelow
    THEN Frac(2 * num - 1, 2 * den)
    ELSE Frac(num, den)

\* weighted_confidence of apply_delta_rule
delta_confidence(results) ==
    LET all_confidences == Map(successful_results(results), Confidence)
        weights == all_confidences
    IN  IF Sum(weights) = 0 THEN Frac(0, 1)
        ELSE float_div(SumSquares(all_confidences), Sum(weights), all_confidences)

\* mutant: the legacy flag of the delta rule ignores the margin
delta_verified_unadjusted(results, thr, mar) ==
    FracGe(delta_confidence(results), thr)

\* verified = weighted_confidence >= adjusted_threshold
delta_verified(results, thr, mar) ==
    FracGe(delta_confidence(results), thr - mar)

apply_delta_rule(results, thr, mar) ==
    IF results = <<>> THEN EmptyResult("delta", 0, TRUE)
    ELSE IF successful_results(results) = <<>>
    THEN EmptyResult("delta", Len(results), FALSE)
    ELSE LET ok == successful_results(results)
             all_confidences == Map(ok, Confidence)
             weighted_confidence == delta_confidence(results)
             adjusted_threshold == thr - mar
             candidates == _extract_candidates(verified_results(results))
             decision == _determine_decision(weighted_confidence, thr, mar, candidates,
                                             Len(ok), Len(results))
         IN  [decision |-> decision,
              confidence |-> Round4(weighted_confidence),
              method |-> "delta",
              identity |-> IdentityOf(decision, candidates),
              candidates |-> candidates,
              total_services |-> Len(results),
              successful_services |-> Len(ok),
              min_confidence |-> <<Min(all_confidences)>>,
              max_confidence |-> <<Max(all_confidences)>>,
              verified |-> <<delta_verified(results, thr, mar)>>,
              adjusted_threshold |-> <<adjusted_threshold>>,
              error |-> <<>>]

\* FUSION_METHOD.lower() == "tau" selects tau, anything else delta
apply_rule(method, results, thr, mar) ==
    IF method = "tau" THEN apply_tau_rule(results, thr, mar)
    ELSE apply_delta_rule(results, thr, mar)

---------------------------------------------------------------------------
(* pp2_client.py: the dicts verify_person returns.  A key the dict lacks    *)
(* holds what .get() yields for it: False, 0.0, None; status_code 0 and    *)
(* error "" stand for an absent key.                                       *)

Outcome(success, verified, confidence, person_id, name, no_face, status, error) ==
    [success |-> success, verified |-> verified, confidence |-> confidence,
     person_id |-> person_id, name |-> name, service_name |-> None,
     no_face_detected |-> no_face, status_code |-> status, error |-> error]

\* success_result: is_me, score, person_id and the name of the raw response
success_result(is_me, score, person_id, name) ==
    Outcome(TRUE, is_me, score, person_id, name, FALSE, 0, "")

\* timeout_result
timeout_result == Outcome(FALSE, FALSE, 0, None, None, FALSE, 0, "timeout")

\* error_result of the httpx.HTTPStatusError handler
http_error_result(status, is_no_face) ==
    Outcome(FALSE, FALSE, 0, None, None, is_no_face, status, "http")

\* error_result of the last handler (except Exception)
error_result == Outcome(FALSE, FALSE, 0, None, None, FALSE, 0, "exception")
\* the dict returned for a file name with another extension (it has no
\* verified and no confidence key: every reader takes the defaults)
extension_error_result == Outcome(FALSE, FALSE, 0, None, None, FALSE, 0, "extension")

---------------------------------------------------------------------------
(* Inputs of the fusion rules *)

\* service_config.get("name", f"pp2_service_{idx}")
ServiceName(idx) == "pp2_service_" \o ToString(idx)

\* raw_response.get("name") or raw_response.get("person_name"): the verifier of
\* P reports a name, the verifier of Q does not
NameOf(person_id) == IF person_id = "P" THEN "Paula" ELSE None

\* what one verifier can answer with a 2xx status: is_me, score, person_id
Matches ==
    {success_result(TRUE, c, p, NameOf(p)) : c \in {5500, 6000, 9000}, p \in {"P", "Q"}}
AnonymousMatches == {success_result(TRUE, 8000, None, None)}
NonMatches == {success_result(FALSE, c, None, None) : c \in {0, 6000}}

Failure == timeout_result

Answers == Matches \cup AnonymousMatches \cup NonMatches \cup {Failure}

\* result["service_name"] = service_name
Named(result, service_name) == [result EXCEPT !.service_name = service_name]

OutcomeLists ==
    UNION {{[i \in 1..n |-> Named(a[i], ServiceName(i))] : a \in [1..n -> Answers]} :
           n \in 0..MaxServices}

Thresholds == {DEFAULT_THRESHOLD, 6000}
Margins == {DEFAULT_MARGIN, 0}

\* arguments of a direct call of _determine_decision
DecisionConfidences == {0, 5999, 6000, 6499, 6500, 7000, 7499, 7500, 9000}
DecisionCandidates ==
    {_extract_candidates(l) :
        l \in UNION {{[i \in 1..n |-> Named(a[i], ServiceName(i))] : a \in [1..n -> Matches]} :
                     n \in 0..2}}

---------------------------------------------------------------------------
(* Specification SpecFuse: the fusion functions applied to drawn inputs *)

InitFuse ==
    /\ pp2_results \in OutcomeLists
    /\ threshold \in Thresholds
    /\ margin \in Margins
    /\ fusion_method = "delta"
    /\ fusion_result = <<>>
    /\ prior_result = <<>>
    /\ candidates_out = <<>>
    /\ decision_call = <<>>
    /\ call_log = <<>>
    /\ resolution = 1
    /\ entry = "fuse"
    /\ health_body = <<>>
    /\ filename_ok = TRUE
    /\ image_size_ok = TRUE
    /\ query = FALSE
    /\ pp1_calls = 0
    /\ registry = NoRegistry
    /\ roster = <<>>
    /\ pc = "fuse"
    /\ tasks = <<>>
    /\ completion_order = <<>>
    /\ status_code = 0
    /\ motor_client = 0
    /\ service_logs = 0

Untouched ==
    /\ fusion_result = <<>>
    /\ prior_result = <<>>
    /\ candidates_out = <<>>
    /\ decision_call = <<>>
    /\ call_log = <<>>

\* the caller's list once a rule has returned: the rules only read `results`
\* and build new lists from it (comprehensions, a fresh candidates list)
\* mutant: the rule sorts the caller's list in place, best confidence first
RECURSIVE results_after_call_sorted_in_place(_)
results_after_call_sorted_in_place(results) ==
    IF results = <<>> THEN <<>>
    ELSE LET sorted == results_after_call_sorted_in_place(SubSeq(results, 1, Len(results) - 1))
             r == results[Len(results)]
             p == Cardinality({i \in 1..Len(sorted) : sorted[i].confidence >= r.confidence})
         IN  InsertAt(sorted, p + 1, r)

results_after_call(results) == results

\* one call of a rule: what it was given, what it left, what it returned
Call(method, results) ==
    [method |-> method,
     results |-> results,
     results_after |-> results_after_call(results),
     ret |-> apply_rule(method, results, threshold, margin)]

\* apply_tau_rule(results, threshold, margin) / apply_delta_rule(...)
FuseCall(method) ==
    /\ Untouched
    /\ fusion_method' = method
    /\ LET call == Call(method, pp2_results) IN
       /\ fusion_result' = <<call.ret>>
       /\ pp2_results' = call.results_after
       /\ call_log' = Append(call_log, call)
    /\ UNCHANGED <<threshold, margin, prior_result, candidates_out,
                   decision_call, request_vars>>

\* the same rule again on the list with one more failed outcome at `pos`
RefuseWithFailure(pos) ==
    /\ fusion_result # <<>>
    /\ prior_result = <<>>
    /\ Len(call_log) < MaxCalls
    /\ Len(pp2_results) \in 1..(MaxServices - 1)
    /\ prior_result' = fusion_result
    /\ LET call == Call(fusion_method,
                        InsertAt(pp2_results, pos, Named(Failure, ServiceName(0)))) IN
       /\ fusion_result' = <<call.ret>>
       /\ pp2_results' = call.results_after
       /\ call_log' = Append(call_log, call)
    /\ UNCHANGED <<threshold, margin, fusion_method, candidates_out, decision_call,
                   request_vars>>

\* the same rule once more on the same list with the same parameters, after
\* the rule has been run on two different lists
FuseRepeat ==
    /\ fusion_result # <<>>
    /\ prior_result # <<>>
    /\ Len(call_log) < MaxCalls
    /\ LET call == Call(fusion_method, pp2_results) IN
       /\ fusion_result' = <<call.ret>>
       /\ pp2_results' = call.results_after
       /\ call_log' = Append(call_log, call)
    /\ UNCHANGED <<threshold, margin, fusion_method, prior_result, candidates_out,
                   decision_call, request_vars>>

\* _extract_candidates(results)
ExtractCall ==
    /\ Untouched
    /\ candidates_out' = <<_extract_candidates(pp2_results)>>
    /\ UNCHANGED <<pp2_results, threshold, margin, fusion_method, fusion_result,
                   prior_result, decision_call, call_log, request_vars>>

\* _determine_decision(confidence, threshold, margin, candidates, successful_services)
\* called on its own, with arguments that need not come from one outcome list
DecisionCall ==
    /\ Untouched
    /\ pp2_results = <<>>
    /\ \E confidence \in DecisionConfidences, candidates \in DecisionCandidates,
          successful_services \in 0..2 :
          decision_call' =
            <<[confidence |-> confidence,
               candidates |-> candidates,
               successful_services |-> successful_services,
               ret |-> _determine_decision(Frac(confidence, 1), threshold, margin,
                                           candidates, successful_services, 1)]>>
    /\ UNCHANGED <<pp2_results, threshold, margin, fusion_method, fusion_result,
                   prior_result, candidates_out, call_log, request_vars>>

RefuseWithSomeFailure ==
    \E pos \in 1..(Len(pp2_results) + 1) : RefuseWithFailure(pos)

NextFuse ==
    \/ \E method \in {"tau", "delta"} : FuseCall(method)
    \/ RefuseWithSomeFailure
    \/ FuseRepeat
    \/ ExtractCall
    \/ DecisionCall

SpecFuse == InitFuse /\ [][NextFuse]_vars

---------------------------------------------------------------------------
(* Specification SpecKeys: the fusion functions on outcomes whose person_id
   may be the name of a service (services are named after the person each of
   them verifies), or whose confidence equals the threshold *)

\* a verifier that reports the person the first service is named after
NamesakeMatches == {success_result(TRUE, 9000, ServiceName(1), None)}

\* verifiers that score P exactly at a threshold of 0.73
BorderlineMatches ==
    {success_result(TRUE, c, "P", NameOf("P")) : c \in RoundedBelow}

KeyThresholds == Thresholds \cup RoundedBelow

KeyAnswers ==
    NamesakeMatches \cup AnonymousMatches \cup BorderlineMatches \cup {Failure}
    \cup {success_result(TRUE, 6000, "P", NameOf("P"))}

KeyOutcomeLists ==
    UNION {{[i \in 1..n |-> Named(f[i], ServiceName(i))] : f \in [1..n -> KeyAnswers]} :
              n \in 0..MaxServices}

InitKeys ==
    /\ pp2_results \in KeyOutcomeLists
    /\ threshold \in KeyThresholds
    /\ margin \in Margins
    /\ fusion_method = "delta"
    /\ fusion_result = <<>>
    /\ prior_result = <<>>
    /\ candidates_out = <<>>
    /\ decision_call = <<>>
    /\ call_log = <<>>
    /\ resolution = 1
    /\ entry = "fuse"
    /\ health_body = <<>>
    /\ filename_ok = TRUE
    /\ image_size_ok = TRUE
    /\ query = FALSE
    /\ pp1_calls = 0
    /\ registry = NoRegistry
    /\ roster = <<>>
    /\ pc = "fuse"
    /\ tasks = <<>>
    /\ completion_order = <<>>
    /\ status_code = 0
    /\ motor_client = 0
    /\ service_logs = 0

SomeFuseCall == \E method \in {"tau", "delta"} : FuseCall(method)

NextKeys ==
    \/ SomeFuseCall
    \/ ExtractCall

SpecKeys == InitKeys /\ [][NextKeys]_vars

---------------------------------------------------------------------------
(* Specification SpecFine: the fusion functions on confidences with a fifth
   decimal, in units of 0.00001 *)

FineResolution == 10

\* THRESHOLD=0.2 and MARGIN=0.1 or 0, in units of 0.00001
FineThreshold == 20000
FineMargins == {DEFAULT_MARGIN * FineResolution, 0}

\* one verifier scores P 0.20004; verifiers score Q 0.20001, 0.20003, 0.1999
FineMatches ==
    {success_result(TRUE, 20004, "P", NameOf("P"))}
    \cup {success_result(TRUE, c, "Q", NameOf("Q")) : c \in {20001, 20003, 19990}}

FineAnswers == FineMatches \cup {Failure}

FineOutcomeLists ==
    UNION {{[i \in 1..n |-> Named(f[i], ServiceName(i))] : f \in [1..n -> FineAnswers]} :
              n \in 0..MaxServices}

InitFine ==
    /\ pp2_results \in FineOutcomeLists
    /\ threshold = FineThreshold
    /\ margin \in FineMargins
    /\ fusion_method = "delta"
    /\ fusion_result = <<>>
    /\ prior_result = <<>>
    /\ candidates_out = <<>>
    /\ decision_call = <<>>
    /\ call_log = <<>>
    /\ resolution = FineResolution
    /\ entry = "fuse"
    /\ health_body = <<>>
    /\ filename_ok = TRUE
    /\ image_size_ok = TRUE
    /\ query = FALSE
    /\ pp1_calls = 0
    /\ registry = NoRegistry
    /\ roster = <<>>
    /\ pc = "fuse"
    /\ tasks = <<>>
    /\ completion_order = <<>>
    /\ status_code = 0
    /\ motor_client = 0
    /\ service_logs = 0

SpecFine == InitFine /\ [][NextKeys]_vars

---------------------------------------------------------------------------
(* registry_loader.py *)

DefaultService == [name |-> "pp2_default", enabled |-> TRUE]

IsEnabled(service_config) == service_config.enabled

load_registry(file) ==
    IF ~file.exists THEN <<DefaultService>>
    ELSE LET services == file.services
             enabled_services == SelectSeq(services, IsEnabled)
         IN  IF enabled_services # <<>> THEN enabled_services ELSE services

RegistryFiles ==
    {NoRegistry} \cup
    UNION {{[exists |-> TRUE,
             services |-> [i \in 1..n |-> [name |-> ServiceName(i), enabled |-> e[i]]]] :
                e \in [1..n -> BOOLEAN]} : n \in 0..MaxRoster}

---------------------------------------------------------------------------
(* pp2_client.py: verify_person and verify_all_services *)

\* what the network does to one call: a 2xx answer, a 2xx body that is not
\* JSON, a timeout, a 500, the 400 "No face detected", any other exception
NoAnswer == error_result
Replies ==
    {[kind |-> "ok", answer |-> a] :
        a \in {success_result(TRUE, 9000, "P", NameOf("P")),
               success_result(TRUE, 5500, "Q", NameOf("Q"))}}
    \cup {[kind |-> k, answer |-> NoAnswer] :
            k \in {"malformed", "timeout", "http_error", "no_face", "error"}}
NoReply == [kind |-> "none", answer |-> NoAnswer]

\* what init_motor() does during one call: it succeeds, it raises the first
\* time only, it raises every time
DbBehaviours == {"ok", "fails_once", "fails"}
\* a call that was not answered 2xx writes one log only: raising the first
\* time and raising every time are the same behaviour for it
DbBehavioursFor(reply) ==
    IF reply.kind \in {"ok", "malformed"} THEN DbBehaviours ELSE {"ok", "fails"}

\* _save_service_log: the handle is obtained by init_motor() before the try
\* block, so its exception propagates; whatever insert_one raises is
\* swallowed.
_save_service_log(init_motor_ok) == IF init_motor_ok THEN "returned" ELSE "raised"

\* pp2_client's own name motor_db: `from db.mongo import motor_db` binds it
\* to the value db.mongo.motor_db has at import, and nothing assigns it again
motor_db == None

\* db.mongo.init_motor: a new client is made and bound to the globals
\* motor_client and motor_db of db.mongo, unless making it raises
init_motor(client, ok) == IF ok THEN client + 1 ELSE client

\* motor_db.service_logs.insert_one inside the try block: on None it raises
\* AttributeError, which is swallowed, and nothing is inserted
insert_one(logs, init_motor_ok) ==
    IF init_motor_ok /\ motor_db # None THEN logs + 1 ELSE logs

\* the log writes of one call of verify_person: whether the init_motor() of
\* each of them returns
log_writes(reply, db) ==
    IF reply.kind \in {"ok", "malformed"} /\ db # "ok"
    THEN <<FALSE, db = "fails_once">>
    ELSE <<db = "ok">>

RECURSIVE after_log_writes(_, _)
after_log_writes(state, writes) ==
    IF writes = <<>> THEN state
    ELSE after_log_writes(
            [motor_client |-> init_motor(state.motor_client, Head(writes)),
             service_logs |-> insert_one(state.service_logs, Head(writes))],
            Tail(writes))

Return(value) == [raised |-> FALSE, value |-> value]
Raise == [raised |-> TRUE, value |-> error_result]

\* verify_person from the reply of client.post to its return or its exception
verify_person(reply, db) ==
    LET first_log == _save_service_log(db = "ok")
        second_log == _save_service_log(db # "fails")
    IN  IF reply.kind \in {"ok", "malformed"}
        THEN LET result == IF reply.kind = "ok" THEN reply.answer
                           ELSE success_result(FALSE, 0, None, None)
             IN  IF first_log = "returned" THEN Return(result)
                 \* the log's exception is caught by `except Exception`,
                 \* which logs again before it returns
                 ELSE IF second_log = "returned" THEN Return(error_result)
                 ELSE Raise
        ELSE LET result == CASE reply.kind = "timeout" -> timeout_result
                             [] reply.kind = "http_error" -> http_error_result(500, FALSE)
                             [] reply.kind = "no_face" -> http_error_result(400, TRUE)
                             [] OTHER -> error_result
             IN  IF first_log = "returned" THEN Return(result) ELSE Raise

\* verify_person before client.post: a file name with an invalid extension is
\* answered, after a log write, without any request
reject_extension(db) ==
    IF _save_service_log(db = "ok") = "returned"
    THEN Return(extension_error_result)
    ELSE Raise

\* started: how often the body of the call began; posts: its client.post calls
NewTask == [state |-> "created", reply |-> NoReply, db |-> "ok",
            raised |-> FALSE, value |-> error_result, started |-> 0, posts |-> 0]

Settled(task) == task.state = "settled"

\* mutant: a failing call cancels the calls still in flight
settle_cancelling_siblings(ts, k, reply, db) ==
    LET r == verify_person(reply, db)
        failed == r.raised \/ ~r.value.success
    IN  [i \in 1..Len(ts) |->
            IF i = k
            THEN [ts[i] EXCEPT !.state = "settled", !.reply = reply, !.db = db,
                               !.raised = r.raised, !.value = r.value]
            ELSE IF failed /\ ~Settled(ts[i])
            THEN [ts[i] EXCEPT !.state = "settled", !.raised = TRUE]
            ELSE ts[i]]

\* mutant: a call that timed out is issued again
settle_retrying_timeouts(ts, k, reply, db) ==
    LET r == verify_person(reply, db)
    IN  IF reply.kind = "timeout" /\ ts[k].posts < 2
        THEN [ts EXCEPT ![k].state = "created"]
        ELSE [ts EXCEPT ![k].state = "settled", ![k].reply = reply, ![k].db = db,
                        ![k].raised = r.raised, ![k].value = r.value]

\* the call of task k ends: only that task changes
settle(ts, k, reply, db) ==
    LET r == verify_person(reply, db)
    IN  [ts EXCEPT ![k].state = "settled", ![k].reply = reply, ![k].db = db,
                   ![k].raised = r.raised, ![k].value = r.value]

\* mutant: the join returns as soon as one call has settled
gather_ready_first_completed(ts) == \E k \in 1..Len(ts) : Settled(ts[k])

\* asyncio.gather(*tasks, return_exceptions=True) returns once every task is done
gather_ready(ts) == \A k \in 1..Len(ts) : Settled(ts[k])

\* mutant: the results come in the order the calls completed
gather_as_completed(ts) ==
    [k \in 1..Len(ts) |->
        IF k <= Len(completion_order) THEN ts[completion_order[k]] ELSE ts[k]]

\* the results of gather are in the order of its arguments
gather(ts) == ts

\* mutant: a call is made for every roster entry
enabled_entries_all(ros) == ros

\* the roster entries a call is made for
enabled_entries(ros) == SelectSeq(ros, IsEnabled)

\* the second loop of verify_all_services over the results of gather
processed_results(ros, results) ==
    LET en == enabled_entries(ros)
    IN  [k \in 1..Len(en) |->
            IF results[k].raised
            THEN [error_result EXCEPT !.service_name = en[k].name]
            ELSE [results[k].value EXCEPT !.service_name = en[k].name]]

---------------------------------------------------------------------------
(* Specification Spec: one request *)

Init ==
    /\ entry \in {"identify_and_answer", "verify_all_services", "healthz"}
    /\ health_body = <<>>
    /\ filename_ok \in (IF entry = "healthz" THEN {TRUE} ELSE BOOLEAN)
    /\ image_size_ok \in (IF entry = "identify_and_answer" THEN BOOLEAN ELSE {TRUE})
    /\ query \in (IF entry = "identify_and_answer" THEN BOOLEAN ELSE {FALSE})
    /\ pp1_calls = 0
    /\ registry \in RegistryFiles
    /\ roster = <<>>
    /\ pc = "start"
    /\ tasks = <<>>
    /\ completion_order = <<>>
    /\ status_code = 0
    \* the startup event of the application has called init_motor() once
    /\ motor_client = (IF entry = "verify_all_services" THEN 0 ELSE 1)
    /\ service_logs = 0
    /\ pp2_results = <<>>
    /\ threshold = DEFAULT_THRESHOLD
    /\ margin = DEFAULT_MARGIN
    /\ fusion_method \in {"tau", "delta"}
    /\ fusion_result = <<>>
    /\ prior_result = <<>>
    /\ candidates_out = <<>>
    /\ decision_call = <<>>
    /\ call_log = <<>>
    /\ resolution = 1

unused_vars == <<threshold, margin, fusion_method, prior_result, candidates_out,
                 decision_call, entry, health_body, filename_ok, image_size_ok, query,
                 registry, resolution>>

\* the variables every step but Paso 4 leaves alone
quiet_vars == <<unused_vars, pp1_calls>>

\* identify_and_answer: an image of more than 5 MB is a 413
RejectImage ==
    /\ pc = "start" /\ entry = "identify_and_answer"
    /\ ~image_size_ok
    /\ pc' = "responded"
    /\ status_code' = 413
    /\ UNCHANGED <<quiet_vars, roster, tasks, completion_order, pp2_results,
                   fusion_result, call_log, log_vars>>

\* whether the registry file can be parsed: a file that exists may hold
\* something yaml.safe_load or config.get("services") raises on
RegistryReadings(file) == IF file.exists THEN BOOLEAN ELSE {TRUE}

\* the body of GET /healthz: the ping of MongoDB and the count of the roster
healthz_body(mongo_ok, registry_readable, file) ==
    LET services ==
            IF registry_readable
            THEN [mongodb |-> IF mongo_ok THEN "ok" ELSE "error",
                  pp2_registered |-> Len(load_registry(file))]
            ELSE [mongodb |-> IF mongo_ok THEN "ok" ELSE "error",
                  pp2_registry |-> "error"]
        base == [status |-> IF mongo_ok THEN "ok" ELSE "degraded",
                 timestamp |-> "utcnow",
                 services |-> services]
        with_mongo == IF mongo_ok THEN base
                      ELSE base @@ [mongo_error |-> "str(e)"]
    IN  IF registry_readable THEN with_mongo
        ELSE with_mongo @@ [pp2_registry_error |-> "str(e)"]

\* GET /healthz: both checks are inside try blocks, the answer is always a 200
Healthz ==
    /\ pc = "start" /\ entry = "healthz"
    /\ \E mongo_ok \in BOOLEAN, registry_readable \in RegistryReadings(registry) :
          health_body' = <<healthz_body(mongo_ok, registry_readable, registry)>>
    /\ status_code' = 200
    /\ pc' = "responded"
    /\ UNCHANGED <<threshold, margin, fusion_method, prior_result, candidates_out,
                   decision_call, entry, filename_ok, image_size_ok, query, registry,
                   pp1_calls, roster, tasks, completion_order, pp2_results,
                   fusion_result, call_log, log_vars, resolution>>

\* identify_and_answer, Paso 1: the roster is loaded; an empty one is a 500
LoadRegistry ==
    /\ pc = "start" /\ entry = "identify_and_answer"
    /\ image_size_ok
    /\ \E readable \in RegistryReadings(registry) :
          IF readable
          THEN /\ roster' = load_registry(registry)
               /\ IF roster' = <<>>
                  THEN pc' = "responded" /\ status_code' = 500
                  ELSE pc' = "calling" /\ status_code' = status_code
          \* yaml.safe_load or config.get raises: `except Exception` answers 500
          ELSE /\ roster' = roster
               /\ pc' = "responded" /\ status_code' = 500
    /\ UNCHANGED <<quiet_vars, tasks, completion_order, pp2_results, fusion_result, call_log, log_vars>>

\* verify_all_services called by another caller, with the roster as it is
DirectCall ==
    /\ pc = "start" /\ entry = "verify_all_services"
    /\ roster' = registry.services
    /\ pc' = "calling"
    /\ UNCHANGED <<quiet_vars, tasks, completion_order, status_code, pp2_results,
                   fusion_result, call_log, log_vars>>

\* mutant: an empty roster falls back to one call of a default service
Dispatch_default_service ==
    /\ pc = "calling"
    /\ pc' = "gathering"
    /\ tasks' = IF roster = <<>> THEN <<NewTask>>
                ELSE [k \in 1..Len(enabled_entries(roster)) |-> NewTask]
    /\ UNCHANGED <<quiet_vars, roster, completion_order, status_code, pp2_results,
                   fusion_result, call_log, log_vars>>

\* verify_all_services up to gather: one call per enabled entry
Dispatch ==
    /\ pc = "calling"
    /\ IF roster = <<>>
       THEN /\ pc' = "returned"
            /\ tasks' = tasks
       ELSE /\ pc' = "gathering"
            /\ tasks' = [k \in 1..Len(enabled_entries(roster)) |-> NewTask]
    /\ UNCHANGED <<quiet_vars, roster, completion_order, status_code, pp2_results,
                   fusion_result, call_log, log_vars>>

\* a call starts, finds a valid extension and waits for client.post
TaskStart(k) ==
    /\ pc = "gathering"
    /\ tasks[k].state = "created"
    /\ filename_ok
    /\ tasks' = [tasks EXCEPT ![k].state = "posting",
                              ![k].started = @ + 1,
                              ![k].posts = @ + 1]
    /\ UNCHANGED <<quiet_vars, roster, pc, completion_order, status_code, pp2_results,
                   fusion_result, call_log, log_vars>>

\* the reply arrives and the call runs to its end
HttpReply(k, reply, db) ==
    /\ pc = "gathering"
    /\ tasks[k].state = "posting"
    /\ tasks' = settle(tasks, k, reply, db)
    /\ completion_order' = Append(completion_order, k)
    /\ LET after == after_log_writes([motor_client |-> motor_client,
                                      service_logs |-> service_logs],
                                     log_writes(reply, db)) IN
       /\ motor_client' = after.motor_client
       /\ service_logs' = after.service_logs
    /\ UNCHANGED <<quiet_vars, roster, pc, status_code, pp2_results, fusion_result, call_log>>

\* a call starts, finds an invalid extension and ends without a request
ExtensionRejected(k, db) ==
    /\ pc = "gathering"
    /\ tasks[k].state = "created"
    /\ ~filename_ok
    /\ LET r == reject_extension(db) IN
       tasks' = [tasks EXCEPT ![k].state = "settled", ![k].db = db,
                              ![k].started = @ + 1,
                              ![k].raised = r.raised, ![k].value = r.value]
    /\ completion_order' = Append(completion_order, k)
    /\ motor_client' = init_motor(motor_client, db = "ok")
    /\ service_logs' = insert_one(service_logs, db = "ok")
    /\ UNCHANGED <<quiet_vars, roster, pc, status_code, pp2_results, fusion_result,
                   call_log>>

SomeExtensionRejected ==
    \E k \in 1..Len(tasks), db \in {"ok", "fails"} : ExtensionRejected(k, db)

SomeTaskStart == \E k \in 1..Len(tasks) : TaskStart(k)
SomeHttpReply == \E k \in 1..Len(tasks), reply \in Replies :
                    \E db \in DbBehavioursFor(reply) : HttpReply(k, reply, db)

\* gather returns, the results get their service names, verify_all_services returns
GatherReturn ==
    /\ pc = "gathering"
    /\ gather_ready(tasks)
    /\ pp2_results' = processed_results(roster, gather(tasks))
    /\ pc' = "returned"
    /\ UNCHANGED <<quiet_vars, roster, tasks, completion_order, status_code,
                   fusion_result, call_log, log_vars>>

\* mutant: the request is rejected only when every result says "no face"
no_face_detected_by_all(results) ==
    /\ results # <<>>
    /\ \A i \in 1..Len(results) : results[i].no_face_detected

\* identify_and_answer: "No face detected" in any result is a 422
no_face_detected(results) ==
    \E i \in 1..Len(results) : results[i].no_face_detected

NoFaceCheck ==
    /\ pc = "returned" /\ entry = "identify_and_answer"
    /\ IF no_face_detected(pp2_results)
       THEN pc' = "responded" /\ status_code' = 422
       ELSE pc' = "fusing" /\ status_code' = status_code
    /\ UNCHANGED <<quiet_vars, roster, tasks, completion_order, pp2_results,
                   fusion_result, call_log, log_vars>>

\* identify_and_answer, Paso 3: the fusion rule
Fuse ==
    /\ pc = "fusing"
    /\ LET call == Call(fusion_method, pp2_results) IN
       /\ fusion_result' = <<call.ret>>
       /\ pp2_results' = call.results_after
       /\ call_log' = Append(call_log, call)
    /\ pc' = "fused"
    /\ UNCHANGED <<quiet_vars, roster, tasks, completion_order, status_code, log_vars>>

\* a caller of verify_all_services hands the returned list to a fusion rule
FuseReturnedList ==
    /\ pc = "returned" /\ entry = "verify_all_services"
    /\ LET call == Call(fusion_method, pp2_results) IN
       /\ fusion_result' = <<call.ret>>
       /\ pp2_results' = call.results_after
       /\ call_log' = Append(call_log, call)
    /\ pc' = "fused"
    /\ UNCHANGED <<quiet_vars, roster, tasks, completion_order, status_code, log_vars>>

\* `if person_identified and query`
asks_pp1(decision, has_query) == decision = "identified" /\ has_query

\* identify_and_answer, Paso 4: ask_pp1, which returns a dict whatever happens
AskPP1 ==
    /\ pc = "fused" /\ entry = "identify_and_answer"
    /\ pp1_calls' = IF asks_pp1(fusion_result[1].decision, query)
                    THEN pp1_calls + 1 ELSE pp1_calls
    /\ pc' = "answered"
    /\ UNCHANGED <<unused_vars, roster, tasks, completion_order, status_code,
                   pp2_results, fusion_result, call_log, log_vars>>

\* identify_and_answer, Paso 5: save_access_log is awaited outside any try of
\* its own, so its exception is a 500 from `except Exception`
SaveAccessLog ==
    /\ pc = "answered"
    /\ \E saved \in BOOLEAN :
          IF saved
          THEN pc' = "logged" /\ status_code' = status_code
          ELSE pc' = "responded" /\ status_code' = 500
    /\ UNCHANGED <<quiet_vars, roster, tasks, completion_order, pp2_results,
                   fusion_result, call_log, log_vars>>

\* the response is built and returned
Respond ==
    /\ pc = "logged"
    /\ status_code' = 200
    /\ pc' = "responded"
    /\ UNCHANGED <<quiet_vars, roster, tasks, completion_order, pp2_results,
                   fusion_result, call_log, log_vars>>

Next ==
    \/ Healthz
    \/ RejectImage
    \/ LoadRegistry
    \/ DirectCall
    \/ Dispatch
    \/ SomeTaskStart
    \/ SomeExtensionRejected
    \/ SomeHttpReply
    \/ GatherReturn
    \/ NoFaceCheck
    \/ Fuse
    \/ FuseReturnedList
    \/ AskPP1
    \/ SaveAccessLog
    \/ Respond

Spec == Init /\ [][Next]_vars

---------------------------------------------------------------------------
(* Claims about the fusion functions, checked under SpecFuse *)

\* the result of the last rule call, and what the claims say it is made of
Fused == fusion_result[1]
Succeeded == SelectSeq(pp2_results, LAMBDA r : r.success)
SucceededConfidences == [i \in 1..Len(Succeeded) |-> Succeeded[i].confidence]
Contributors == SelectSeq(pp2_results, LAMBDA r : r.success /\ r.verified)
GroupingKey(r) == IF r.person_id # None THEN r.person_id ELSE r.service_name
CandidateKey(c) == IF c.person_id # None THEN c.person_id ELSE c.services[1]
ContributorsOf(key) ==
    SelectSeq(pp2_results, LAMBDA r : r.success /\ r.verified /\ GroupingKey(r) = key)

C6_TotalFailure ==
    (fusion_result # <<>> /\ pp2_results # <<>> /\ Succeeded = <<>>) =>
        /\ Fused.decision = "unknown"
        /\ Fused.confidence = 0
        /\ Fused.successful_services = 0
        /\ Fused.identity = <<>>
        /\ Fused.candidates = <<>>
        /\ Fused.total_services = Len(pp2_results)
        /\ Fused.method = fusion_method

C6_Witness ==
    /\ fusion_result # <<>>
    /\ fusion_method = "tau"
    /\ Len(pp2_results) = 2
    /\ Succeeded = <<>>
    /\ Fused.total_services = 2

\* C7: inserting a failed outcome anywhere into a non-empty outcome list
\* changes total_services by +1 and nothing else of the rule's result.
C7_FailedOutcomesDoNotContribute ==
    prior_result # <<>> =>
        Fused = [prior_result[1] EXCEPT !.total_services = @ + 1]

\* a failure inserted in front of one verified outcome at or above the threshold
C7_Witness ==
    /\ prior_result # <<>>
    /\ Len(pp2_results) = 2
    /\ ~pp2_results[1].success
    /\ pp2_results[2].success /\ pp2_results[2].verified
    /\ pp2_results[2].confidence >= threshold
    /\ Fused.decision = "identified"
    /\ Fused.successful_services = 1
    /\ Fused.total_services = 2

\* C8: the tau confidence is the unweighted mean of the confidences of all
\* successful outcomes, verified or not, rounded to 4 decimals, and the
\* decision is taken on that mean; Scenario B gives 0.575 and unknown.
ScenarioB ==
    /\ Len(pp2_results) = 2
    /\ pp2_results[1].success /\ pp2_results[1].verified
    /\ pp2_results[1].confidence = 6000 /\ pp2_results[1].person_id = "P"
    /\ pp2_results[2].success /\ pp2_results[2].verified
    /\ pp2_results[2].confidence = 5500 /\ pp2_results[2].person_id = "Q"
    /\ threshold = DEFAULT_THRESHOLD /\ margin = DEFAULT_MARGIN

C8_TauIsMeanOfSuccessful ==
    (fusion_result # <<>> /\ fusion_method = "tau" /\ Succeeded # <<>>) =>
        LET total == Sum(SucceededConfidences)
            n == Len(Succeeded)
        IN  /\ Fused.confidence = Round4([num |-> total, den |-> n])
            /\ Fused.decision =
                 IF Fused.candidates = <<>> THEN "unknown"
                 ELSE IF total >= threshold * n THEN "identified"
                 ELSE IF total >= (threshold - margin) * n THEN "ambiguous"
                 ELSE "unknown"
            /\ ScenarioB => Fused.confidence = 5750 /\ Fused.decision = "unknown"

C8_Witness ==
    /\ fusion_result # <<>> /\ fusion_method = "tau"
    /\ ScenarioB
    /\ Fused.confidence = 5750
    /\ Fused.decision = "unknown"

C10_CandidatesGroupVerified ==
    candidates_out # <<>> =>
        LET K == candidates_out[1]
            keys == {GroupingKey(Contributors[i]) : i \in 1..Len(Contributors)}
        IN  /\ Len(K) = Cardinality(keys)
            /\ \A k \in 1..Len(K) : K[k].services # <<>> /\ CandidateKey(K[k]) \in keys
            /\ \A key \in keys :
                 \E k \in 1..Len(K) :
                    LET of == ContributorsOf(key) IN
                    /\ CandidateKey(K[k]) = key
                    /\ K[k].services = [i \in 1..Len(of) |-> of[i].service_name]
                    /\ K[k].service_count = Len(of)
                    /\ K[k].score =
                         Round4([num |-> Sum([i \in 1..Len(of) |-> of[i].confidence]),
                                 den |-> Len(of)])
            /\ \A i \in 1..Len(pp2_results) :
                 Cardinality({k \in 1..Len(K) :
                     \E j \in 1..Len(K[k].services) :
                         K[k].services[j] = pp2_results[i].service_name})
                 = IF pp2_results[i].success /\ pp2_results[i].verified THEN 1 ELSE 0

\* two verifiers agree on one person and a third outcome contributes nothing
C10_Witness ==
    /\ candidates_out # <<>>
    /\ Len(pp2_results) = 3
    /\ Len(candidates_out[1]) = 1
    /\ candidates_out[1][1].service_count = 2
    /\ candidates_out[1][1].services = <<"pp2_service_1", "pp2_service_3">>
    /\ pp2_results[2].success /\ ~pp2_results[2].verified

\* position in the outcome list of the first outcome grouped under candidate c
FirstContribution(c) ==
    Min(SelectSeq([i \in 1..Len(pp2_results) |->
                      IF pp2_results[i].success /\ pp2_results[i].verified
                         /\ GroupingKey(pp2_results[i]) = CandidateKey(c)
                      THEN i ELSE 0],
                  LAMBDA i : i > 0))

\* C11: the candidate list of _extract_candidates is in non-increasing order
\* of score, and two candidates of equal score are in the order of their first
\* contributing outcomes in the outcome list.
C11_CandidatesSortedStable ==
    candidates_out # <<>> =>
        LET K == candidates_out[1] IN
        \A i, j \in 1..Len(K) :
            i < j =>
                /\ K[i].score >= K[j].score
                /\ K[i].score = K[j].score =>
                       FirstContribution(K[i]) < FirstContribution(K[j])

\* three candidates, the last two tied, and the tied pair is Q before P
\* because Q's first outcome comes first
C11_Witness ==
    /\ candidates_out # <<>>
    /\ Len(candidates_out[1]) = 3
    /\ candidates_out[1][1].score > candidates_out[1][2].score
    /\ candidates_out[1][2].score = candidates_out[1][3].score
    /\ candidates_out[1][2].person_id = "Q"
    /\ candidates_out[1][3].person_id = "P"
    /\ pp2_results[1].person_id = "Q"

\* the other fusion rule on the same outcome list and parameters
OtherRule ==
    apply_rule(IF fusion_method = "tau" THEN "delta" ELSE "tau",
               pp2_results, threshold, margin)

\* C12: in every result of either rule, identity is present iff decision is
\* identified, and then its person_id, name and score are those of
\* candidates[0]; when both rules identify, they emit the same identity.
C12_IdentityIsTopCandidate ==
    fusion_result # <<>> =>
        /\ (Fused.identity # <<>>) <=> (Fused.decision = "identified")
        /\ Fused.identity # <<>> =>
              /\ Fused.candidates # <<>>
              /\ Fused.identity[1].person_id = Fused.candidates[1].person_id
              /\ Fused.identity[1].name = Fused.candidates[1].name
              /\ Fused.identity[1].score = Fused.candidates[1].score
              /\ \A k \in 1..Len(Fused.candidates) :
                     Fused.candidates[k].score <= Fused.identity[1].score
        /\ (Fused.decision = "identified" /\ OtherRule.decision = "identified") =>
              Fused.identity = OtherRule.identity

\* the delta rule identifies Q, who ranks above P although P's outcome comes
\* first in the list
C12_Witness ==
    /\ fusion_result # <<>>
    /\ fusion_method = "delta"
    /\ Fused.decision = "identified"
    /\ Len(Fused.candidates) = 2
    /\ Fused.identity[1].person_id = "Q"
    /\ Fused.candidates[2].person_id = "P"
    /\ pp2_results[1].person_id = "P"

C19_TauLegacyVerified ==
    (fusion_result # <<>> /\ fusion_method = "tau" /\ Succeeded # <<>>) =>
        LET n == Len(Succeeded)
            verified_count == Len(Contributors)
        IN  /\ Len(Fused.verified) = 1
            /\ n = 1 => (Fused.verified[1] <=> Succeeded[1].confidence >= threshold)
            /\ n >= 2 =>
                  (Fused.verified[1] <=>
                      \/ 2 * verified_count > n
                      \/ Sum(SucceededConfidences) >= threshold * n)

\* a single successful outcome that is not verified itself, at the threshold
C19_Witness ==
    /\ fusion_result # <<>> /\ fusion_method = "tau"
    /\ Len(Succeeded) = 1
    /\ ~Succeeded[1].verified
    /\ Succeeded[1].confidence = threshold
    /\ Fused.verified = <<TRUE>>

\* C22: a verified outcome without person_id is never merged with an outcome
\* of another roster entry: its candidate has that one service as its sole
\* contributor, whatever the other outcomes carry.
C22_AnonymousNeverMerged ==
    candidates_out # <<>> =>
        \A i \in 1..Len(pp2_results) :
            (pp2_results[i].success /\ pp2_results[i].verified
               /\ pp2_results[i].person_id = None)
            => \E k \in 1..Len(candidates_out[1]) :
                  candidates_out[1][k].services = <<pp2_results[i].service_name>>

\* positions in the candidate list of the candidates grouped under P and Q
RankOf(key) ==
    CHOOSE k \in 1..Len(candidates_out[1]) : CandidateKey(candidates_out[1][k]) = key

\* one verified outcome proposes P, several verified outcomes agree on Q, and
\* P's confidence is higher than that of each of them
SingleAboveSeveral ==
    /\ candidates_out # <<>>
    /\ Len(ContributorsOf("P")) = 1
    /\ Len(ContributorsOf("Q")) >= 2
    /\ \A i \in 1..Len(ContributorsOf("Q")) :
          ContributorsOf("P")[1].confidence > ContributorsOf("Q")[i].confidence

C27_DecisionAgreesWithReported ==
    (fusion_result # <<>> /\ Fused.candidates # <<>>) =>
        /\ (Fused.decision = "identified") <=> (Fused.confidence >= threshold)
        /\ (Fused.decision = "unknown") <=> (Fused.confidence < threshold - margin)

\* order of the decisions: unknown < ambiguous < identified
DecisionRank(decision) ==
    CASE decision = "unknown" -> 0
      [] decision = "ambiguous" -> 1
      [] decision = "identified" -> 2

TauResult == IF fusion_method = "tau" THEN Fused ELSE OtherRule
DeltaResult == IF fusion_method = "delta" THEN Fused ELSE OtherRule

\* C28: on the same outcome list, threshold and margin, the delta confidence
\* is at least the tau confidence and the delta decision is never weaker than
\* the tau decision; when all successful confidences are equal (with a single
\* successful outcome in particular) the two rules give the same confidence
\* and the same decision.
C28_DeltaNeverWeakerThanTau ==
    (fusion_result # <<>> /\ Succeeded # <<>>) =>
        /\ DeltaResult.confidence >= TauResult.confidence
        /\ DecisionRank(DeltaResult.decision) >= DecisionRank(TauResult.decision)
        /\ (\A i \in 1..Len(Succeeded) : Succeeded[i].confidence = Succeeded[1].confidence)
              => /\ DeltaResult.confidence = TauResult.confidence
                 /\ DeltaResult.decision = TauResult.decision

\* C29: for both rules, every threshold and margin, a result with decision
\* identified has verified true; for the delta rule with a non-empty
\* candidate list, verified is true iff the decision is not unknown.
C29_VerifiedFollowsDecision ==
    (fusion_result # <<>> /\ Succeeded # <<>>) =>
        /\ Fused.decision = "identified" => Fused.verified = <<TRUE>>
        /\ (fusion_method = "delta" /\ Fused.candidates # <<>>) =>
              (Fused.verified = <<TRUE>> <=> Fused.decision # "unknown")

\* the delta rule on a single verified 0.55 against 0.60 / 0.1: the decision
\* is ambiguous and the legacy flag is true
C29_Witness ==
    /\ fusion_result # <<>> /\ fusion_method = "delta"
    /\ threshold = 6000 /\ margin = DEFAULT_MARGIN
    /\ Len(Succeeded) = 1
    /\ Succeeded[1].verified /\ Succeeded[1].confidence = 5500
    /\ Fused.decision = "ambiguous"
    /\ Fused.verified = <<TRUE>>

\* C30: for both rules and every outcome list with a successful outcome,
\* min_confidence <= confidence <= max_confidence, min_confidence and
\* max_confidence being the smallest and the largest confidence of the
\* successful outcomes; successful_services <= total_services; and there
\* are at most as many candidates as verified successful outcomes.
C30_ConfidenceWithinBounds ==
    (fusion_result # <<>> /\ Succeeded # <<>>) =>
        /\ Fused.min_confidence = <<Min(SucceededConfidences)>>
        /\ Fused.max_confidence = <<Max(SucceededConfidences)>>
        /\ Fused.min_confidence[1] <= Fused.confidence
        /\ Fused.confidence <= Fused.max_confidence[1]
        /\ Fused.successful_services <= Fused.total_services
        /\ Len(Fused.candidates) <= Len(Contributors)

---------------------------------------------------------------------------
(* Claims about one request, checked under Spec *)

\* verify_all_services has returned its list
VerifyAllReturned ==
    \/ pc \in {"returned", "fusing", "fused", "answered", "logged"}
    \/ /\ pc = "responded" /\ entry # "healthz"
       /\ (status_code \in {200, 422} \/ fusion_result # <<>>)

EnabledOfRoster == SelectSeq(roster, LAMBDA e : e.enabled)

\* C14: within one request there is one call per enabled roster entry, it
\* begins once and posts at most once (once when the file name is valid), and
\* a call that failed or timed out is not issued again: its failure is the
\* outcome reported at that entry's position.
C14_NoRetries ==
    /\ \A k \in 1..Len(tasks) : tasks[k].started <= 1 /\ tasks[k].posts <= 1
    /\ VerifyAllReturned =>
          /\ Len(tasks) = Len(EnabledOfRoster)
          /\ Len(pp2_results) = Len(tasks)
          /\ \A k \in 1..Len(tasks) :
                /\ tasks[k].started = 1
                /\ tasks[k].posts = IF filename_ok THEN 1 ELSE 0
                /\ (tasks[k].raised
                      \/ tasks[k].reply.kind \in {"timeout", "http_error", "no_face", "error"}
                      \/ ~filename_ok)
                   => /\ ~pp2_results[k].success
                      /\ pp2_results[k].service_name = EnabledOfRoster[k].name

\* the first call timed out, the second one succeeded, and the list has the
\* timeout at the first position
C14_Witness ==
    /\ VerifyAllReturned
    /\ Len(tasks) = 2
    /\ tasks[1].reply.kind = "timeout" /\ tasks[1].posts = 1
    /\ ~pp2_results[1].success /\ pp2_results[1].error = "timeout"
    /\ pp2_results[2].success

\* the enabled services of the registry file (the default one without a file)
EnabledOfRegistry ==
    IF registry.exists THEN SelectSeq(registry.services, LAMBDA e : e.enabled)
    ELSE <<DefaultService>>

\* names of the roster entries with enabled == false
DisabledNames == {roster[i].name : i \in {j \in 1..Len(roster) : ~roster[j].enabled}}

\* C15: no call is started and no outcome is produced for a roster entry with
\* enabled == false, and the total_services of the request's fusion result is
\* the number of enabled entries, of the roster and of the registry file.
C15_DisabledEntriesSkipped ==
    /\ Len(tasks) \in {0, Len(EnabledOfRoster)}
    /\ \A k \in 1..Len(pp2_results) : pp2_results[k].service_name \notin DisabledNames
    /\ VerifyAllReturned => Len(pp2_results) = Len(EnabledOfRoster)
    /\ (fusion_result # <<>> /\ entry = "identify_and_answer") =>
          /\ Fused.total_services = Len(EnabledOfRoster)
          /\ Fused.total_services = Len(EnabledOfRegistry)

\* the file lists a disabled service and an enabled one; one call, for the
\* second service, and fusion counts one service
C15_Witness ==
    /\ fusion_result # <<>>
    /\ Len(registry.services) = 2
    /\ ~registry.services[1].enabled /\ registry.services[2].enabled
    /\ Len(tasks) = 1
    /\ pp2_results[1].service_name = registry.services[2].name
    /\ Fused.total_services = 1

\* C16: with an empty roster verify_all_services returns an empty list and
\* starts no call, and either rule applied to the empty list returns unknown
\* with total_services 0, successful_services 0, confidence 0, no identity.
C16_EmptyRoster ==
    /\ (roster = <<>> /\ VerifyAllReturned) =>
          tasks = <<>> /\ completion_order = <<>> /\ pp2_results = <<>>
    /\ (fusion_result # <<>> /\ pp2_results = <<>>) =>
          /\ Fused.decision = "unknown"
          /\ Fused.total_services = 0
          /\ Fused.successful_services = 0
          /\ Fused.confidence = 0
          /\ Fused.identity = <<>>
          /\ Fused.candidates = <<>>

\* verify_all_services was given the empty roster of a file without services
\* and the delta rule ran on what it returned
C16_Witness ==
    /\ entry = "verify_all_services"
    /\ registry.exists /\ registry.services = <<>>
    /\ roster = <<>>
    /\ pc = "fused"
    /\ fusion_method = "delta"
    /\ Fused.decision = "unknown" /\ Fused.total_services = 0

\* some outcome of the list verify_all_services returned has the no-face flag
SomeOutcomeSaysNoFace ==
    /\ entry = "identify_and_answer"
    /\ VerifyAllReturned
    /\ \E k \in 1..Len(pp2_results) :
          pp2_results[k].no_face_detected /\ pp2_results[k].status_code = 400

\* C17: when an outcome of the request carries the no-face signal,
\* identify_and_answer runs no fusion rule, does not call ask_pp1 and answers
\* 422, whatever the other outcomes are.
C17_NoFaceRejectsRequest ==
    SomeOutcomeSaysNoFace =>
        /\ fusion_result = <<>>
        /\ call_log = <<>>
        /\ pp1_calls = 0
        /\ pc \in {"returned", "responded"}
        /\ pc = "responded" => status_code = 422

\* one verifier recognised P with 0.9, the other one saw no face; the request
\* carried a question and was answered 422
C17_Witness ==
    /\ SomeOutcomeSaysNoFace
    /\ pc = "responded" /\ status_code = 422
    /\ query
    /\ Len(pp2_results) = 2
    /\ pp2_results[1].success /\ pp2_results[1].verified
    /\ pp2_results[1].confidence = 9000
    /\ pp2_results[2].no_face_detected

\* C18: ask_pp1 is called in a request only after fusion has produced
\* decision identified, at most once, and never in a request that ends in an
\* error.
C18_PP1OnlyWhenIdentified ==
    /\ pp1_calls <= 1
    /\ pp1_calls > 0 =>
          /\ fusion_result # <<>>
          /\ Fused.decision = "identified"
          /\ pc = "responded" => status_code = 200

\* C20: GET /healthz always answers 200 with a body equal to exactly
\* {"status": "ok"}.
C20_HealthzBodyIsStatusOk ==
    (entry = "healthz" /\ pc = "responded") =>
        /\ status_code = 200
        /\ health_body = <<[status |-> "ok"]>>

\* C21: a 2xx response whose body is not the verification payload gives an
\* outcome with success false: it is not counted in successful_services and
\* its score is not averaged into the fused confidence.
C21_MalformedBodyIsFailure ==
    /\ VerifyAllReturned =>
          \A k \in 1..Len(tasks) :
              tasks[k].reply.kind = "malformed" => ~pp2_results[k].success
    /\ (fusion_result # <<>> /\ entry = "identify_and_answer") =>
          Fused.successful_services =
              Cardinality({k \in 1..Len(tasks) :
                              tasks[k].reply.kind = "ok" /\ ~tasks[k].raised})

\* C24: a request of identify_and_answer whose roster is empty completes with
\* a result of decision unknown and total_services 0, and is never answered
\* with an error response.
C24_EmptyRosterIsUnknown ==
    (entry = "identify_and_answer" /\ image_size_ok /\ pc = "responded"
       /\ registry.exists /\ registry.services = <<>>) =>
        /\ status_code = 200
        /\ fusion_result # <<>>
        /\ Fused.decision = "unknown"
        /\ Fused.total_services = 0

\* C25: a step of verify_person or verify_all_services leaves the collection
\* service_logs and every other process-wide state (the globals of db.mongo)
\* unchanged, whether the call succeeds or fails.
C25_VerificationHasNoSideEffect ==
    [][(pc = "calling" \/ pc = "gathering") =>
          (service_logs' = service_logs /\ motor_client' = motor_client)]_vars

\* C26: a failure of the log write, obtaining the database handle included,
\* never changes what verify_person returns: the call returns the outcome it
\* returns when the log write succeeds, for a 2xx exchange and for a failed
\* call alike.
C26_LogFailureKeepsOutcome ==
    \A k \in 1..Len(tasks) :
        (Settled(tasks[k]) /\ tasks[k].reply # NoReply) =>
            /\ ~tasks[k].raised
            /\ tasks[k].value = verify_person(tasks[k].reply, "ok").value

\* C2: verify_all_services returns one outcome per enabled roster entry, in
\* roster order, each the outcome of that entry's own call whatever the order
\* of completion; an entry whose task raised gets a failed outcome
\* (success false, verified false, confidence 0) at its own position.
C2_OutcomesInRosterOrder ==
    VerifyAllReturned =>
        /\ Len(pp2_results) = Len(EnabledOfRoster)
        /\ \A k \in 1..Len(EnabledOfRoster) :
              /\ pp2_results[k].service_name = EnabledOfRoster[k].name
              /\ IF tasks[k].raised
                 THEN /\ ~pp2_results[k].success
                      /\ ~pp2_results[k].verified
                      /\ pp2_results[k].confidence = 0
                 ELSE pp2_results[k] =
                        [tasks[k].value EXCEPT !.service_name = EnabledOfRoster[k].name]
              /\ pp2_results[k].success =>
                    /\ tasks[k].reply.kind \in {"ok", "malformed"}
                    /\ tasks[k].reply.kind = "ok" =>
                          /\ pp2_results[k].confidence = tasks[k].reply.answer.confidence
                          /\ pp2_results[k].person_id = tasks[k].reply.answer.person_id

\* the second call settles first, by an exception; the first one succeeds later
C2_Witness ==
    /\ VerifyAllReturned
    /\ Len(tasks) = 2
    /\ completion_order = <<2, 1>>
    /\ tasks[2].raised
    /\ tasks[1].reply.kind = "ok"
    /\ pp2_results[1].success /\ pp2_results[1].service_name = EnabledOfRoster[1].name
    /\ ~pp2_results[2].success /\ pp2_results[2].service_name = EnabledOfRoster[2].name

\* C3: no candidate extraction, fusion rule or decision runs, and
\* verify_all_services does not return, before every launched call has
\* settled; a first success does not end the wait.
C3_FullBarrier ==
    (VerifyAllReturned \/ fusion_result # <<>>) =>
        \A k \in 1..Len(tasks) : Settled(tasks[k])

\* the first call to settle succeeded and verified; fusion still ran only
\* after the second one had timed out
C3_Witness ==
    /\ fusion_result # <<>>
    /\ completion_order = <<1, 2>>
    /\ ~tasks[1].raised /\ tasks[1].value.success /\ tasks[1].value.verified
    /\ tasks[2].reply.kind = "timeout"
    /\ Fused.total_services = 2

\* C4: a timeout or another failure of one call touches that call's outcome
\* only: every call runs its own exchange to the end (it has none when the
\* file name is rejected), one that was answered and logged reports that
\* answer, and one ends by an exception only for a failure of its own.
C4_FailureIsLocal ==
    /\ \A k \in 1..Len(tasks) :
          Settled(tasks[k]) =>
              /\ (tasks[k].reply = NoReply) <=> ~filename_ok
              /\ tasks[k].raised => tasks[k].db # "ok"
              /\ (tasks[k].reply.kind = "ok" /\ tasks[k].db = "ok") =>
                    ~tasks[k].raised /\ tasks[k].value = tasks[k].reply.answer
              /\ tasks[k].reply.kind \in {"timeout", "http_error", "no_face", "error"} =>
                    tasks[k].raised \/ ~tasks[k].value.success
    /\ VerifyAllReturned =>
          \A k \in 1..Len(tasks) :
              /\ pp2_results[k].success = (~tasks[k].raised /\ tasks[k].value.success)
              /\ (tasks[k].reply.kind = "ok" /\ tasks[k].db = "ok") =>
                    /\ pp2_results[k].success
                    /\ pp2_results[k].verified = tasks[k].reply.answer.verified
                    /\ pp2_results[k].confidence = tasks[k].reply.answer.confidence

\* the first call times out, the second one is answered afterwards
C4_Witness ==
    /\ VerifyAllReturned
    /\ completion_order = <<1, 2>>
    /\ tasks[1].reply.kind = "timeout" /\ ~tasks[1].raised
    /\ tasks[2].reply.kind = "ok"
    /\ ~pp2_results[1].success /\ pp2_results[1].error = "timeout"
    /\ pp2_results[2].success /\ pp2_results[2].verified

\* C5: verify_person always returns an outcome and never ends by an
\* exception.
C5_VerifyPersonNeverRaises ==
    \A k \in 1..Len(tasks) : ~tasks[k].raised

====
